---- MODULE Spec2Model ----
(***************************************************************************)
(* Model of src/tools/pss_helper.py: the Pod Security Standards analyzer.  *)
(*                                                                         *)
(* A parsed YAML value is a tagged record:                                 *)
(*   [t |-> "null"]                 YAML null / Python None                *)
(*   [t |-> "bool", v |-> "true"]   booleans ("true" / "false")            *)
(*   [t |-> "int",  v |-> "0"]      integers, by their decimal text        *)
(*   [t |-> "str",  v |-> "Pod"]    strings                                *)
(*   [t |-> "map",  m |-> f]        mappings, f a function on its keys     *)
(*   [t |-> "seq",  s |-> <<..>>]   sequences                              *)
(* A Python exception leaving a function is the value [t |-> "raise"].     *)
(*                                                                         *)
(* Formatted strings are kept as their parts: an issue id is the sequence  *)
(* of its "-"-separated segments, a path is the sequence of its            *)
(* "."-separated segments, each a field name with an optional [index].     *)
(***************************************************************************)
EXTENDS Integers, Sequences, FiniteSets, TLC

VARIABLES
  manifest,    \* the documents yaml.safe_load_all yields for manifest_yaml
  profile,     \* the profile argument
  pc,          \* "start", "loop", "done", or "raised" after an exception
  docs,        \* the non-empty documents
  di,          \* position in docs of the next document of the loop
  all_issues,  \* the accumulated issues
  origin,      \* history: origin[k] is the position of the document of all_issues[k]
  result       \* the returned mapping, NoResult before the return

vars == <<manifest, profile, pc, docs, di, all_issues, origin, result>>

----------------------------------------------------------------------------
(* Bounds of the explored inputs *)

MaxDocs == 2
MaxContainers == 2
MaxCaps == 2
MaxVolumes == 1

----------------------------------------------------------------------------
(* Values *)

Null == [t |-> "null"]
BoolV(b) == [t |-> "bool", v |-> b]
IntV(n) == [t |-> "int", v |-> n]
StrV(s) == [t |-> "str", v |-> s]
Map(f) == [t |-> "map", m |-> f]
List(s) == [t |-> "seq", s |-> s]
RAISE == [t |-> "raise"]

EmptyFcn == [k \in {} |-> Null]
EmptyMap == Map(EmptyFcn)
EmptyList == List(<<>>)
PyTrue == BoolV("true")
PyFalse == BoolV("false")

\* bool(v) of Python
Truthy(v) ==
  CASE v.t = "null" -> FALSE
    [] v.t = "bool" -> v.v = "true"
    [] v.t = "int" -> v.v # "0"
    [] v.t = "str" -> v.v # ""
    [] v.t = "map" -> DOMAIN v.m # {}
    [] v.t = "seq" -> Len(v.s) > 0

\* `v or d` of Python; an exception raised while computing v propagates
PyOr(v, d) == IF v.t = "raise" THEN RAISE ELSE IF Truthy(v) THEN v ELSE d

\* d.get(k, default): AttributeError unless d is a mapping
DictGet(d, k, default) ==
  IF d.t # "map" THEN RAISE
  ELSE IF k \in DOMAIN d.m THEN d.m[k] ELSE default

\* str.lower() on the kind strings
LowerTable ==
  [s \in {"Pod", "Deployment", "DEPLOYMENT", "ReplicaSet", "StatefulSet",
          "DaemonSet", "Job", "CronJob", "Service"} |->
     CASE s = "Pod" -> "pod"
       [] s = "Deployment" -> "deployment"
       [] s = "DEPLOYMENT" -> "deployment"
       [] s = "ReplicaSet" -> "replicaset"
       [] s = "StatefulSet" -> "statefulset"
       [] s = "DaemonSet" -> "daemonset"
       [] s = "Job" -> "job"
       [] s = "CronJob" -> "cronjob"
       [] s = "Service" -> "service"]

Lower(s) == IF s \in DOMAIN LowerTable THEN LowerTable[s] ELSE s

\* str.upper() on the profile strings
Upper(s) ==
  CASE s = "baseline" -> "BASELINE"
    [] s = "restricted" -> "RESTRICTED"
    [] s = "privileged" -> "PRIVILEGED"
    [] OTHER -> s

----------------------------------------------------------------------------
(* Paths, ids, messages *)

\* a plain field carries the index -1
Fld(f) == [f |-> f, i |-> -1]
Idx(f, i) == [f |-> f, i |-> i]

\* f"containers[{i}]", the placeholder name of a container without a name
PlaceholderName(i) ==
  CASE i = 0 -> "containers[0]"
    [] i = 1 -> "containers[1]"
    [] i = 2 -> "containers[2]"
    [] i = 3 -> "containers[3]"
    [] OTHER -> "containers[n]"

Msg(tmpl, args, caps) == [tmpl |-> tmpl, args |-> args, caps |-> caps]
Patch(tmpl, path) == [tmpl |-> tmpl, path |-> path]

Issue(id, path, message, patch) ==
  [id |-> id, level |-> "error", path |-> path, message |-> message,
   recommendedPatch |-> patch]

----------------------------------------------------------------------------
(* _check_pod_spec *)

Ok(issues) == [t |-> "ok", issues |-> issues]

HostFields == <<"hostNetwork", "hostPID", "hostIPC">>

HostIssue(field, prof) ==
  Issue(<<"PSS", Upper(prof), field>>,
        <<Fld("spec"), Fld(field)>>,
        Msg("{field}=true is not allowed under {profile} profile.",
            <<field, prof>>, <<>>),
        Patch("spec:\n  {field}: false\n", <<Fld(field)>>))

\* 1) host* flags
HostIssues(pod_spec, prof) ==
  LET hit == SelectSeq(HostFields,
                       LAMBDA f : Truthy(DictGet(pod_spec, f, PyFalse)))
  IN [j \in 1..Len(hit) |-> HostIssue(hit[j], prof)]

VolumeIssue(i, prof) ==
  Issue(<<"PSS", Upper(prof), "hostPath">>,
        <<Fld("spec"), Idx("volumes", i), Fld("hostPath")>>,
        Msg("hostPath volumes are disallowed under baseline/restricted.",
            <<>>, <<>>),
        Patch("# Replace hostPath with PVC / ConfigMap / Secret / emptyDir, etc.\n",
              <<>>))

\* 2) hostPath volumes; vols is the sequence being enumerated
VolumeIssues(vols, prof) ==
  LET hit == SelectSeq([j \in 1..Len(vols) |-> j],
                       LAMBDA j : "hostPath" \in DOMAIN vols[j].m)
  IN [k \in 1..Len(hit) |-> VolumeIssue(hit[k] - 1, prof)]

BasePath(i) == <<Fld("spec"), Idx("containers", i), Fld("securityContext")>>

ContainerName(c, i) ==
  LET n == DictGet(c, "name", StrV(PlaceholderName(i)))
  IN IF n.t = "str" THEN n.v ELSE "None"

PrivilegedIssues(sc, name, i) ==
  IF Truthy(DictGet(sc, "privileged", PyFalse))
  THEN << Issue(<<"PSS", "PRIVILEGED">>,
                BasePath(i) \o <<Fld("privileged")>>,
                Msg("Container {name} runs privileged. Not allowed in baseline/restricted.",
                    <<name>>, <<>>),
                Patch("{base_path}:\n  privileged: false\n", BasePath(i))) >>
  ELSE <<>>

AllowPrivEscIssues(sc, name, i) ==
  IF Truthy(DictGet(sc, "allowPrivilegeEscalation", PyTrue))
  THEN << Issue(<<"PSS", "ALLOW_PRIV_ESC">>,
                BasePath(i) \o <<Fld("allowPrivilegeEscalation")>>,
                Msg("Container {name} allows privilege escalation.",
                    <<name>>, <<>>),
                Patch("{base_path}:\n  allowPrivilegeEscalation: false\n",
                      BasePath(i))) >>
  ELSE <<>>

\* run_as_user in (None, 0)
InNoneOrZero(v) == v.t = "null" \/ (v.t = "int" /\ v.v = "0")

\* RunAsNonRootIssues with the runAsUser test forgotten
RunAsNonRootIssuesNoUser(sc, name, i, prof) ==
  IF prof = "restricted" /\ DictGet(sc, "runAsNonRoot", Null) # PyTrue
  THEN << Issue(<<"PSS", "RESTRICTED", "RUN_AS_NON_ROOT">>,
                BasePath(i),
                Msg("Container {name} must be configured to run as non-root under restricted profile.",
                    <<name>>, <<>>),
                Patch("{base_path}:\n  runAsNonRoot: true\n  runAsUser: 1000\n",
                      BasePath(i))) >>
  ELSE <<>>

RunAsNonRootIssues(sc, name, i, prof) ==
  IF prof = "restricted"
  THEN LET run_as_non_root == DictGet(sc, "runAsNonRoot", Null)
           run_as_user == DictGet(sc, "runAsUser", Null)
       IN IF run_as_non_root # PyTrue /\ InNoneOrZero(run_as_user)
          THEN << Issue(<<"PSS", "RESTRICTED", "RUN_AS_NON_ROOT">>,
                        BasePath(i),
                        Msg("Container {name} must be configured to run as non-root under restricted profile.",
                            <<name>>, <<>>),
                        Patch("{base_path}:\n  runAsNonRoot: true\n  runAsUser: 1000\n",
                              BasePath(i))) >>
          ELSE <<>>
  ELSE <<>>

CapsPatchText ==
  "{base_path}:\n  capabilities:\n    drop: [\"ALL\"]\n    # Optional: add NET_BIND_SERVICE only if needed\n    # add: [\"NET_BIND_SERVICE\"]\n"

\* ForbiddenCaps without the NET_BIND_SERVICE exemption
ForbiddenCapsUnfiltered(caps) == caps

ForbiddenCaps(caps) == SelectSeq(caps, LAMBDA cap : cap # "NET_BIND_SERVICE")

\* CapsIssues without the test of the profile
CapsIssuesUngated(sc, name, i, prof) ==
  LET caps == PyOr(DictGet(PyOr(DictGet(sc, "capabilities", Null), EmptyMap),
                           "add", Null),
                   EmptyList)
      forbidden_caps == ForbiddenCaps(caps.s)
  IN IF Len(forbidden_caps) > 0
     THEN << Issue(<<"PSS", "RESTRICTED", "CAPS">>,
                   BasePath(i) \o <<Fld("capabilities"), Fld("add")>>,
                   Msg("Container {name} adds capabilities {forbidden_caps} which violate restricted profile.",
                       <<name>>, forbidden_caps),
                   Patch(CapsPatchText,
                         BasePath(i))) >>
     ELSE <<>>

CapsIssues(sc, name, i, prof) ==
  LET caps == PyOr(DictGet(PyOr(DictGet(sc, "capabilities", Null), EmptyMap),
                           "add", Null),
                   EmptyList)
      forbidden_caps == ForbiddenCaps(caps.s)
  IN IF Len(forbidden_caps) > 0 /\ prof = "restricted"
     THEN << Issue(<<"PSS", "RESTRICTED", "CAPS">>,
                   BasePath(i) \o <<Fld("capabilities"), Fld("add")>>,
                   Msg("Container {name} adds capabilities {forbidden_caps} which violate restricted profile.",
                       <<name>>, forbidden_caps),
                   Patch(CapsPatchText,
                         BasePath(i))) >>
     ELSE <<>>

\* the body of the loop over containers, for container c at index i
ContainerIssues(c, i, prof) ==
  LET sc == PyOr(DictGet(c, "securityContext", Null), EmptyMap)
      name == ContainerName(c, i)
  IN PrivilegedIssues(sc, name, i)
       \o AllowPrivEscIssues(sc, name, i)
       \o RunAsNonRootIssues(sc, name, i, prof)
       \o CapsIssues(sc, name, i, prof)

RECURSIVE ContainersFromReversed(_, _, _)
\* ContainersFrom visiting the containers last to first
ContainersFromReversed(cs, j, prof) ==
  IF j > Len(cs) THEN <<>>
  ELSE ContainersFromReversed(cs, j + 1, prof) \o ContainerIssues(cs[j], j - 1, prof)

RECURSIVE ContainersFrom(_, _, _)
\* 3) container securityContext checks, from the container at position j on
ContainersFrom(cs, j, prof) ==
  IF j > Len(cs) THEN <<>>
  ELSE ContainerIssues(cs[j], j - 1, prof) \o ContainersFrom(cs, j + 1, prof)

CheckPodSpec(pod_spec, prof) ==
  IF pod_spec.t # "map" THEN RAISE
  ELSE LET vols == DictGet(pod_spec, "volumes", EmptyList)
           cs == DictGet(pod_spec, "containers", EmptyList)
       IN IF vols.t # "seq" \/ cs.t # "seq" THEN RAISE
          ELSE Ok(HostIssues(pod_spec, prof)
                    \o VolumeIssues(vols.s, prof)
                    \o ContainersFrom(cs.s, 1, prof))

----------------------------------------------------------------------------
(* _extract_pod_spec *)

ControllerKinds == {"deployment", "replicaset", "statefulset", "daemonset"}

TemplateSpec(spec) ==
  PyOr(DictGet(DictGet(spec, "template", EmptyMap), "spec", EmptyMap), EmptyMap)

\* CronJobSpec reading the CronJob like a Job, without jobTemplate
CronJobSpecAsJob(spec) == TemplateSpec(spec)

CronJobSpec(spec) ==
  PyOr(DictGet(DictGet(DictGet(DictGet(spec, "jobTemplate", EmptyMap),
                               "spec", EmptyMap),
                       "template", EmptyMap),
               "spec", EmptyMap),
       EmptyMap)

KindOf(doc) == Lower(PyOr(DictGet(doc, "kind", Null), StrV("")).v)

ExtractPodSpec(doc) ==
  LET kind == KindOf(doc)
      spec == PyOr(DictGet(doc, "spec", Null), EmptyMap)
  IN IF kind = "pod" THEN spec
     ELSE IF kind \in ControllerKinds THEN TemplateSpec(spec)
     ELSE IF kind = "job" THEN TemplateSpec(spec)
     ELSE IF kind = "cronjob" THEN CronJobSpec(spec)
     ELSE spec

----------------------------------------------------------------------------
(* analyze_manifest_for_pss *)

\* issue.setdefault(key, value)
SetDefault(issue, key, value) ==
  IF key \in DOMAIN issue THEN issue ELSE issue @@ (key :> value)

Stamp(issue, kind, name, namespace) ==
  SetDefault(SetDefault(SetDefault(issue, "resourceKind", kind),
                        "resourceName", name),
             "namespace", namespace)

\* one iteration of `for doc in docs`: the stamped issues, or RAISE
AnalyzeDoc(doc, prof) ==
  IF doc.t # "map" THEN RAISE
  ELSE LET meta == PyOr(DictGet(doc, "metadata", Null), EmptyMap)
           name == DictGet(meta, "name", Null)
           namespace == DictGet(meta, "namespace", Null)
           kind == DictGet(doc, "kind", Null)
           pod_spec == ExtractPodSpec(doc)
           r == IF pod_spec.t = "raise" THEN RAISE
                ELSE CheckPodSpec(pod_spec, prof)
       IN IF name.t = "raise" \/ r.t = "raise" THEN RAISE
          ELSE Ok([j \in 1..Len(r.issues) |->
                     Stamp(r.issues[j], kind, name, namespace)])

NoResult == [t |-> "none"]

\* docs = [d for d in yaml.safe_load_all(manifest_yaml) if d]
LoadDocs ==
  /\ pc = "start"
  /\ docs' = SelectSeq(manifest, Truthy)
  /\ pc' = "loop"
  /\ UNCHANGED <<manifest, profile, di, all_issues, origin, result>>

\* one iteration of the loop over docs; an exception ends the call
ProcessDoc ==
  /\ pc = "loop"
  /\ di <= Len(docs)
  /\ LET r == AnalyzeDoc(docs[di], profile)
     IN IF r.t = "raise"
        THEN /\ pc' = "raised"
             /\ UNCHANGED <<di, all_issues, origin>>
        ELSE /\ all_issues' = all_issues \o r.issues
             /\ origin' = origin \o [j \in 1..Len(r.issues) |-> di]
             /\ di' = di + 1
             /\ pc' = pc
  /\ UNCHANGED <<manifest, profile, docs, result>>

Return ==
  /\ pc = "loop"
  /\ di > Len(docs)
  /\ result' = [t |-> "ok", profile |-> profile,
                issueCount |-> Len(all_issues), issues |-> all_issues]
  /\ pc' = "done"
  /\ UNCHANGED <<manifest, profile, docs, di, all_issues, origin>>

Next == LoadDocs \/ ProcessDoc \/ Return

----------------------------------------------------------------------------
(* Inputs: the manifests and profiles the analysis is explored on *)

Absent == [t |-> "absent"]

\* a key of a mapping under construction, left out when its value is Absent
Opt(k, v) == IF v.t = "absent" THEN EmptyFcn ELSE (k :> v)

SeqsUpTo(S, n) == UNION {[1..k -> S] : k \in 0..n}

InsertAt(s, p, e) ==
  [j \in 1..(Len(s) + 1) |-> IF j < p THEN s[j] ELSE IF j = p THEN e ELSE s[j - 1]]

Profiles == {"baseline", "restricted", "privileged"}

CapNames == {"SYS_ADMIN", "NET_ADMIN", "NET_BIND_SERVICE"}

CapsChoices ==
  {Absent, Null, Map("drop" :> List(<<"ALL">>)), Map("add" :> Null)}
    \cup {Map("add" :> List(s)) : s \in SeqsUpTo(CapNames, MaxCaps)}

SecCtx(priv, ape, ranr, rau, caps) ==
  Map(Opt("privileged", priv) @@ Opt("allowPrivilegeEscalation", ape)
        @@ Opt("runAsNonRoot", ranr) @@ Opt("runAsUser", rau)
        @@ Opt("capabilities", caps))

Container(name, sc) == Map(Opt("name", name) @@ Opt("securityContext", sc))

SecCtxPool ==
  {SecCtx(p, a, r, u, Absent) :
     p \in {Absent, PyTrue, PyFalse},
     a \in {Absent, PyTrue, PyFalse, Null},
     r \in {Absent, PyTrue, PyFalse, Null},
     u \in {Absent, Null, IntV("0"), IntV("1000")}}
    \cup {SecCtx(Absent, a, r, Absent, c) :
            a \in {Absent, PyFalse}, r \in {Absent, PyTrue}, c \in CapsChoices}

RichContainers ==
  {Container(StrV("app"), sc) : sc \in SecCtxPool}
    \cup {Container(StrV("app"), Absent), Container(Absent, Null)}

CompliantContainer ==
  Container(StrV("web"),
            SecCtx(PyFalse, PyFalse, PyTrue, IntV("1000"),
                   Map("add" :> List(<<"NET_BIND_SERVICE">>))))

BareContainer == Container(Absent, Absent)

BadContainer ==
  Container(StrV("db"),
            SecCtx(PyTrue, Absent, PyFalse, IntV("0"),
                   Map("add" :> List(<<"SYS_ADMIN", "NET_BIND_SERVICE">>))))

HostPathVolume == Map("name" :> StrV("host") @@ "hostPath" :> Map("path" :> StrV("/")))
EmptyDirVolume == Map("name" :> StrV("tmp") @@ "emptyDir" :> EmptyMap)

PodSpecOf(hostNetwork, hostPID, hostIPC, vols, cs) ==
  Map(Opt("hostNetwork", hostNetwork) @@ Opt("hostPID", hostPID)
        @@ Opt("hostIPC", hostIPC) @@ Opt("volumes", vols)
        @@ Opt("containers", cs))

Meta(name, namespace) == Map(Opt("name", name) @@ Opt("namespace", namespace))

Doc(kind, meta, spec) ==
  Map(Opt("kind", kind) @@ Opt("metadata", meta) @@ Opt("spec", spec))

Streams(heads, tails) ==
  {<<h>> \o t : h \in heads, t \in SeqsUpTo(tails, MaxDocs - 1)}

TypeOK ==
  /\ pc \in {"start", "loop", "raised", "done"}
  /\ di \in 1..(Len(docs) + 1)
  /\ Len(origin) = Len(all_issues)

(* SpecRules: one Pod whose containers range over the security contexts *)

RuleContainerLists ==
  {<<>>} \cup
  UNION {{InsertAt(rest, p, c) : p \in 1..(Len(rest) + 1), c \in RichContainers} :
           rest \in SeqsUpTo({CompliantContainer, BadContainer}, MaxContainers - 1)}

RulePodSpecs ==
  {PodSpecOf(Absent, Absent, Absent, Absent, List(cs)) : cs \in RuleContainerLists}
    \cup {PodSpecOf(Absent, PyTrue, Absent, List(<<HostPathVolume>>), List(cs)) :
            cs \in RuleContainerLists}

RuleManifests ==
  {<<Doc(StrV("Pod"), Meta(StrV("web"), StrV("prod")), ps)>> : ps \in RulePodSpecs}

InitCommon ==
  /\ profile \in Profiles
  /\ pc = "start"
  /\ docs = <<>>
  /\ di = 1
  /\ all_issues = <<>>
  /\ origin = <<>>
  /\ result = NoResult

InitRules == manifest \in RuleManifests /\ InitCommon

SpecRules == InitRules /\ [][Next]_vars

(* Spec: streams of documents of every kind, well-formed and not *)

KindNames ==
  {"Pod", "Deployment", "DEPLOYMENT", "ReplicaSet", "StatefulSet",
   "DaemonSet", "Job", "CronJob", "Service"}

VolumeLists == SeqsUpTo({EmptyDirVolume, HostPathVolume}, MaxVolumes)

PodSpecPool ==
  {EmptyMap}
    \cup {PodSpecOf(PyTrue, PyFalse, PyTrue, List(vs),
                    List(<<BareContainer, BadContainer>>)) : vs \in VolumeLists}
    \cup {PodSpecOf(Absent, PyTrue, Absent, List(<<HostPathVolume>>), List(cs)) :
            cs \in SeqsUpTo({BareContainer, BadContainer}, MaxContainers)}

\* the spec of a workload of the given kind holding pod spec ps
Wrap(kind, ps) ==
  CASE kind \in {"Deployment", "DEPLOYMENT", "ReplicaSet", "StatefulSet", "DaemonSet"} ->
         Map("replicas" :> IntV("1") @@ "template" :> Map("spec" :> ps))
    [] kind = "Job" -> Map("template" :> Map("spec" :> ps))
    [] kind = "CronJob" ->
         Map("schedule" :> StrV("@daily")
               @@ "jobTemplate" :> Map("spec" :> Map("template" :> Map("spec" :> ps))))
    [] OTHER -> ps

MetaFor(kind) ==
  CASE kind = "Pod" -> Meta(StrV("web"), StrV("prod"))
    [] kind = "Deployment" -> Meta(StrV("api"), Absent)
    [] kind = "Job" -> Null
    [] kind = "Service" -> Absent
    [] OTHER -> Meta(StrV("batch"), StrV("default"))

WellFormedDocs ==
  {Doc(StrV(k), MetaFor(k), Wrap(k, ps)) : k \in KindNames, ps \in PodSpecPool}
    \cup {Doc(Absent, Meta(StrV("anon"), Absent), ps) : ps \in PodSpecPool}

HostPidSpec == PodSpecOf(Absent, PyTrue, Absent, Absent, Absent)

MalformedDocs ==
  {Doc(StrV("Deployment"), MetaFor("Deployment"), Map("template" :> Null)),
   Doc(StrV("Deployment"), MetaFor("Deployment"), Map("replicas" :> IntV("1"))),
   Doc(StrV("Deployment"), MetaFor("Deployment"), Null),
   Doc(StrV("StatefulSet"), MetaFor("StatefulSet"), Map("template" :> Map("spec" :> Null))),
   Doc(StrV("Job"), Null, Map("template" :> StrV("x"))),
   Doc(StrV("CronJob"), MetaFor("CronJob"), Map("jobTemplate" :> Null)),
   Doc(StrV("CronJob"), MetaFor("CronJob"), Map("jobTemplate" :> Map("spec" :> EmptyMap))),
   Doc(StrV("Pod"), MetaFor("Pod"), StrV("x")),
   Doc(StrV("Pod"), MetaFor("Pod"), Absent),
   Doc(StrV("Pod"), MetaFor("Pod"), Map("containers" :> Null)),
   StrV("text"), Null, EmptyMap}

TailDocs ==
  {Doc(StrV("Pod"), Meta(StrV("second"), StrV("prod")), ps) :
     ps \in {EmptyMap, HostPidSpec,
             PodSpecOf(PyTrue, PyFalse, PyTrue, List(<<HostPathVolume>>),
                       List(<<BareContainer, BadContainer>>))}}
    \cup {Null}

\* a workload wrapping a pod spec, followed by the bare Pod with that pod spec
PairStreams ==
  {<<Doc(StrV(k), MetaFor(k), Wrap(k, ps)),
     Doc(StrV("Pod"), Meta(StrV("bare"), Absent), ps)>> :
     k \in KindNames, ps \in PodSpecPool}

Manifests ==
  Streams(WellFormedDocs \cup MalformedDocs, TailDocs)
    \cup (IF MaxDocs >= 2 THEN PairStreams ELSE {})

Init == manifest \in Manifests /\ InitCommon

Spec == Init /\ [][Next]_vars

----------------------------------------------------------------------------
(* Vocabulary of the properties *)

Done == pc = "done"

\* the positions, in the reported issues, of the issues of document d
IssueIdxs(d) == {k \in 1..Len(result.issues) : origin[k] = d}

IssuesOfDoc(d) ==
  LET ks == SelectSeq([k \in 1..Len(result.issues) |-> k], LAMBDA k : origin[k] = d)
  IN [j \in 1..Len(ks) |-> result.issues[ks[j]]]

CountAt(d, id, path) ==
  Cardinality({k \in IssueIdxs(d) :
                 result.issues[k].id = id /\ result.issues[k].path = path})

HasKey(v, k) == v.t = "map" /\ k \in DOMAIN v.m

\* field/index traversal of a document along a path
RECURSIVE Resolves(_, _)
Resolves(v, path) ==
  IF path = <<>> THEN TRUE
  ELSE LET seg == Head(path)
       IN /\ HasKey(v, seg.f)
          /\ IF seg.i = -1 THEN Resolves(v.m[seg.f], Tail(path))
             ELSE /\ v.m[seg.f].t = "seq"
                  /\ seg.i + 1 \in 1..Len(v.m[seg.f].s)
                  /\ Resolves(v.m[seg.f].s[seg.i + 1], Tail(path))

\* the value under a chain of keys; Absent when the chain breaks
RECURSIVE ValueAt(_, _)
ValueAt(v, keys) ==
  IF keys = <<>> THEN v
  ELSE IF HasKey(v, Head(keys)) THEN ValueAt(v.m[Head(keys)], Tail(keys))
  ELSE Absent

IsKind(doc, names) ==
  /\ HasKey(doc, "kind")
  /\ doc.m["kind"].t = "str"
  /\ doc.m["kind"].v \in names

\* a bare Pod whose spec is a mapping with a sequence of containers
IsPodWithContainers(doc) ==
  /\ IsKind(doc, {"Pod"})
  /\ ValueAt(doc, <<"spec", "containers">>).t = "seq"

ContainersOf(doc) == ValueAt(doc, <<"spec", "containers">>).s

\* the value of a securityContext field of a container; Absent when not there
ScField(c, k) == ValueAt(c, <<"securityContext", k>>)

ContainerPath(i) == <<Fld("spec"), Idx("containers", i), Fld("securityContext")>>

ValidProfiles == {"baseline", "restricted"}

----------------------------------------------------------------------------
(* C1: a profile that is neither "baseline" nor "restricted" is rejected
   before any document is processed, and no AnalysisResult is returned. *)
C1_InvalidProfileRejected ==
  profile \notin ValidProfiles => (di = 1 /\ result = NoResult)

(* C2: the path of every issue resolves, by field/index traversal from the
   root of the document that produced it, to a location of that document. *)
C2_PathsResolve ==
  Done => \A k \in 1..Len(result.issues) :
            Resolves(docs[origin[k]], result.issues[k].path)

(* C3: under profile "baseline" no reported issue has an id that starts
   with PSS-RESTRICTED-. *)
C3_BaselineNoRestrictedIds ==
  (Done /\ profile = "baseline") =>
    \A k \in 1..Len(result.issues) :
      LET id == result.issues[k].id
      IN ~(Len(id) >= 3 /\ id[1] = "PSS" /\ id[2] = "RESTRICTED")

\* baseline, and a container that runs as root and adds a forbidden capability
C3_Witness ==
  /\ Done /\ profile = "baseline"
  /\ result.issueCount >= 3
  /\ \E i \in 1..Len(ContainersOf(docs[1])) :
       LET c == ContainersOf(docs[1])[i]
       IN /\ ScField(c, "runAsNonRoot") = Absent
          /\ ScField(c, "runAsUser") = IntV("0")
  /\ \E i \in 1..Len(ContainersOf(docs[1])) :
       LET add == ValueAt(ContainersOf(docs[1])[i],
                          <<"securityContext", "capabilities", "add">>)
       IN add.t = "seq" /\ \E j \in 1..Len(add.s) : add.s[j] = "SYS_ADMIN"
  /\ HasKey(ValueAt(docs[1], <<"spec">>), "hostPID")

(* C4: every reported issue carries resourceKind, resourceName and
   resourceNamespace, equal to kind, metadata.name and metadata.namespace
   of the document that produced it (null when the document lacks them). *)
C4_IdentityStamped ==
  Done => \A k \in 1..Len(result.issues) :
            LET issue == result.issues[k]
                doc == docs[origin[k]]
                meta == PyOr(DictGet(doc, "metadata", Null), EmptyMap)
            IN /\ {"resourceKind", "resourceName", "resourceNamespace"}
                    \subseteq DOMAIN issue
               /\ issue["resourceKind"] = DictGet(doc, "kind", Null)
               /\ issue["resourceName"] = DictGet(meta, "name", Null)
               /\ issue["resourceNamespace"] = DictGet(meta, "namespace", Null)

ControllerNames == {"deployment", "replicaset", "statefulset", "daemonset", "job"}

\* the keys from the root of a document to its pod spec, by kind
ExtractionPath(doc) ==
  LET kind == IF IsKind(doc, KindNames) THEN Lower(doc.m["kind"].v) ELSE ""
  IN IF kind \in ControllerNames THEN <<"spec", "template", "spec">>
     ELSE IF kind = "cronjob"
          THEN <<"spec", "jobTemplate", "spec", "template", "spec">>
     ELSE <<"spec">>

\* a key of the extraction path is missing or holds something not a mapping
PathBroken(doc) == ValueAt(doc, ExtractionPath(doc)).t # "map"

(* C5: when a key on the kind's extraction path is missing or holds a value
   that is not a mapping, nothing is raised, the document yields no
   findings, and the other documents of the stream are still processed. *)
C5_BrokenPathYieldsNoFindings ==
  \A d \in 1..Len(docs) :
    (docs[d].t = "map" /\ PathBroken(docs[d])) =>
      /\ ~(pc = "raised" /\ di = d)
      /\ Done => IssueIdxs(d) = {}

(* C6: for both profiles and every container i, exactly one
   PSS-ALLOW_PRIV_ESC issue at
   spec.containers[i].securityContext.allowPrivilegeEscalation is emitted
   if and only if the field is not explicitly false (absent, no
   securityContext, or any value other than false). *)
C6_PrivEscUnlessExplicitlyFalse ==
  Done => \A d \in 1..Len(docs) :
    IsPodWithContainers(docs[d]) =>
      \A i \in 1..Len(ContainersOf(docs[d])) :
        CountAt(d, <<"PSS", "ALLOW_PRIV_ESC">>,
                ContainerPath(i - 1) \o <<Fld("allowPrivilegeEscalation")>>)
          = IF ScField(ContainersOf(docs[d])[i], "allowPrivilegeEscalation") = PyFalse
            THEN 0 ELSE 1

\* the issues without the resource identity
Core(issues) ==
  [j \in 1..Len(issues) |->
     [id |-> issues[j].id, level |-> issues[j].level, path |-> issues[j].path,
      message |-> issues[j].message,
      recommendedPatch |-> issues[j].recommendedPatch]]

\* the pod spec a workload document wraps; Absent for the other kinds
WrappedSpec(doc) ==
  IF PathBroken(doc) \/ Len(ExtractionPath(doc)) = 1 THEN Absent
  ELSE ValueAt(doc, ExtractionPath(doc))

(* C7: a controller document wrapping pod spec P (kind matched
   case-insensitively) yields the same sequence of issues, equal in id,
   level, path, message and recommendedPatch, as a bare Pod with spec P. *)
C7_WrappedEqualsBarePod ==
  Done => \A a, b \in 1..Len(docs) :
    (/\ IsKind(docs[b], {"Pod"})
     /\ WrappedSpec(docs[a]).t = "map"
     /\ ValueAt(docs[b], <<"spec">>) = WrappedSpec(docs[a]))
      => Core(IssuesOfDoc(a)) = Core(IssuesOfDoc(b))

\* a CronJob and the bare Pod of its pod spec, both with findings
C7_Witness ==
  /\ Done /\ Len(docs) = 2
  /\ IsKind(docs[1], {"CronJob"}) /\ IsKind(docs[2], {"Pod"})
  /\ WrappedSpec(docs[1]) = ValueAt(docs[2], <<"spec">>)
  /\ Len(IssuesOfDoc(1)) >= 3
  /\ Len(IssuesOfDoc(2)) >= 3

NonRootViolation(c) ==
  /\ ScField(c, "runAsNonRoot") # PyTrue
  /\ \/ ScField(c, "runAsUser") = Absent
     \/ ScField(c, "runAsUser") = Null
     \/ ScField(c, "runAsUser") = IntV("0")

(* C8: under "restricted", for every container i, exactly one
   PSS-RESTRICTED-RUN_AS_NON_ROOT issue at spec.containers[i].securityContext
   is emitted if and only if runAsNonRoot is not exactly true and runAsUser
   is absent (or null) or 0. *)
C8_NonRootIffViolation ==
  (Done /\ profile = "restricted") => \A d \in 1..Len(docs) :
    IsPodWithContainers(docs[d]) =>
      \A i \in 1..Len(ContainersOf(docs[d])) :
        CountAt(d, <<"PSS", "RESTRICTED", "RUN_AS_NON_ROOT">>, ContainerPath(i - 1))
          = IF NonRootViolation(ContainersOf(docs[d])[i]) THEN 1 ELSE 0

\* restricted: one container passes on runAsNonRoot true alone, another
\* fails with runAsNonRoot false and a non-root issue reported
C8_Witness ==
  /\ Done /\ profile = "restricted"
  /\ \E i \in 1..Len(ContainersOf(docs[1])) :
       LET c == ContainersOf(docs[1])[i]
       IN /\ ScField(c, "runAsNonRoot") = PyTrue
          /\ ScField(c, "runAsUser") = Absent
          /\ CountAt(1, <<"PSS", "RESTRICTED", "RUN_AS_NON_ROOT">>,
                     ContainerPath(i - 1)) = 0
  /\ \E i \in 1..Len(ContainersOf(docs[1])) :
       LET c == ContainersOf(docs[1])[i]
       IN /\ ScField(c, "runAsNonRoot") = PyFalse
          /\ ScField(c, "runAsUser") = IntV("0")
          /\ CountAt(1, <<"PSS", "RESTRICTED", "RUN_AS_NON_ROOT">>,
                     ContainerPath(i - 1)) = 1

RECURSIVE OtherThanNetBind(_)
OtherThanNetBind(s) ==
  IF s = <<>> THEN <<>>
  ELSE (IF Head(s) = "NET_BIND_SERVICE" THEN <<>> ELSE <<Head(s)>>)
         \o OtherThanNetBind(Tail(s))

AddedCaps(c) ==
  LET add == ValueAt(c, <<"securityContext", "capabilities", "add">>)
  IN IF add.t = "seq" THEN add.s ELSE <<>>

CapsHits(d, i) ==
  {k \in IssueIdxs(d) :
     /\ result.issues[k].id = <<"PSS", "RESTRICTED", "CAPS">>
     /\ result.issues[k].path
          = ContainerPath(i - 1) \o <<Fld("capabilities"), Fld("add")>>}

(* C9: under "restricted", for every container i, exactly one
   PSS-RESTRICTED-CAPS issue at
   spec.containers[i].securityContext.capabilities.add is emitted if and
   only if capabilities.add has an entry other than NET_BIND_SERVICE; its
   message lists exactly those entries, in their original order. *)
C9_CapsIffForbidden ==
  (Done /\ profile = "restricted") => \A d \in 1..Len(docs) :
    IsPodWithContainers(docs[d]) =>
      \A i \in 1..Len(ContainersOf(docs[d])) :
        LET entries == AddedCaps(ContainersOf(docs[d])[i])
        IN /\ Cardinality(CapsHits(d, i))
                = IF \E j \in 1..Len(entries) : entries[j] # "NET_BIND_SERVICE"
                  THEN 1 ELSE 0
           /\ \A k \in CapsHits(d, i) :
                result.issues[k].message.caps = OtherThanNetBind(entries)

\* restricted: a container adding a forbidden capability next to
\* NET_BIND_SERVICE, reported once with the forbidden one alone
C9_Witness ==
  /\ Done /\ profile = "restricted"
  /\ \E i \in 1..Len(ContainersOf(docs[1])) :
       /\ AddedCaps(ContainersOf(docs[1])[i]) = <<"SYS_ADMIN", "NET_BIND_SERVICE">>
       /\ \E k \in CapsHits(1, i) :
            result.issues[k].message.caps = <<"SYS_ADMIN">>

\* the rule, 1 to 6, that emitted an issue
RuleOf(issue) ==
  LET last == issue.id[Len(issue.id)]
  IN CASE last \in {"hostNetwork", "hostPID", "hostIPC"} -> 1
       [] last = "hostPath" -> 2
       [] last = "PRIVILEGED" -> 3
       [] last = "ALLOW_PRIV_ESC" -> 4
       [] last = "RUN_AS_NON_ROOT" -> 5
       [] last = "CAPS" -> 6

\* the volume or container index in an issue's path
ItemIndex(issue) == issue.path[2].i

\* host namespace, hostPath, or one of the four container rules
GroupOf(issue) == IF RuleOf(issue) <= 2 THEN RuleOf(issue) ELSE 3

(* C10, as claimed: issues are in document order; within a document all
   issues of an earlier rule (1 to 6) precede all issues of a later rule;
   within one rule they are in volume/container index order. *)
C10_RuleMajorOrder ==
  Done => \A k, l \in 1..Len(result.issues) :
    k < l =>
      LET x == result.issues[k]
          y == result.issues[l]
      IN /\ origin[k] <= origin[l]
         /\ origin[k] = origin[l] =>
              /\ RuleOf(x) <= RuleOf(y)
              /\ (RuleOf(x) = RuleOf(y) /\ RuleOf(x) >= 2) =>
                   ItemIndex(x) < ItemIndex(y)

(* C10, amended: issues are in document order; within a document the host
   namespace issues precede the hostPath issues, which precede the
   container issues; hostPath issues are in volume index order; container
   issues are in container index order and, within one container, in the
   order privileged, privilege-escalation, non-root, capability. *)
C10_ContainerMajorOrder ==
  Done => \A k, l \in 1..Len(result.issues) :
    k < l =>
      LET x == result.issues[k]
          y == result.issues[l]
      IN /\ origin[k] <= origin[l]
         /\ origin[k] = origin[l] =>
              /\ GroupOf(x) <= GroupOf(y)
              /\ (GroupOf(x) = 2 /\ GroupOf(y) = 2) => ItemIndex(x) < ItemIndex(y)
              /\ (GroupOf(x) = 3 /\ GroupOf(y) = 3) =>
                   \/ ItemIndex(x) < ItemIndex(y)
                   \/ ItemIndex(x) = ItemIndex(y) /\ RuleOf(x) < RuleOf(y)

\* two documents with findings, one of them with a later rule's issue for
\* an earlier container ahead of an earlier rule's issue for a later one
C10_Witness ==
  /\ Done
  /\ \E k, l \in 1..Len(result.issues) : origin[k] < origin[l]
  /\ \E k, l \in 1..Len(result.issues) :
       /\ k < l /\ origin[k] = origin[l]
       /\ GroupOf(result.issues[k]) = 3
       /\ ItemIndex(result.issues[k]) < ItemIndex(result.issues[l])
       /\ RuleOf(result.issues[k]) > RuleOf(result.issues[l])

====
